---- MODULE Spec2Model ----
(***************************************************************************)
(* Model of the BusTub buffer pool: BufferPoolManager                      *)
(* (src/buffer/buffer_pool_manager.cpp) and ClockReplacer                  *)
(* (src/buffer/clock_replacer.cpp).  Every public operation takes the pool *)
(* latch (std::lock_guard lock(latch_)) for its whole body, so each one is *)
(* one atomic action.                                                      *)
(***************************************************************************)
EXTENDS Integers, Sequences, FiniteSets, TLC

\* ---- bounds of the model ----
PoolSize == 2     \* pool_size passed to the constructor
MaxPages == 3     \* number of page ids AllocatePage hands out
MaxPins  == 2     \* references one page's callers hold at a time
MaxByte  == 1     \* page contents are one value of 0..MaxByte
NumThreads == 2   \* threads that call the manager concurrently

Frames  == 0 .. (PoolSize - 1)
PageIds == 0 .. (MaxPages - 1)
Bytes   == 0 .. MaxByte
Threads == 1 .. NumThreads

NULL == -1        \* nullptr / no frame
END  == 0         \* list_.end(); the elements of list_ are at 1..Len(list_)
NONE == 0         \* latch_ is held by no thread

VARIABLES
  page_table_,    \* page id -> frame id, partial
  frame_table_,   \* frame id -> page id, partial
  free_list_,     \* sequence of frame ids
  pages_,         \* frame id -> [data, pin_count_, is_dirty_, wlatch]
  replacer_,      \* [list_, ref_, header_] of the ClockReplacer
  disk,           \* page id -> bytes held by the DiskManager
  next_page_id,   \* the next id AllocatePage returns
  pins,           \* resident page id -> references its callers hold (returns of fetch/new minus returns of unpin)
  dirtied,        \* page id -> unpinned with is_dirty = true and neither flushed nor evicted since
  last,           \* the call that just returned and what it did
  crashed,        \* the process ran into undefined behaviour and stopped
  latch_,         \* the thread that holds the pool latch, or NONE
  thr             \* thread -> [pc, want, ret, reads]: where it is in its call

vars == <<page_table_, frame_table_, free_list_, pages_, replacer_, disk,
          next_page_id, pins, dirtied, last, crashed, latch_, thr>>

\* ---- maps and lists ----
Put(m, k, v) == [x \in (DOMAIN m) \cup {k} |-> IF x = k THEN v ELSE m[x]]

Erase(m, k) == [x \in (DOMAIN m) \ {k} |-> m[x]]

RemoveAt(s, i) == [j \in 1 .. (Len(s) - 1) |-> IF j < i THEN s[j] ELSE s[j + 1]]

Range(s) == {s[i] : i \in DOMAIN s}

\* ---- ClockReplacer ----
NewReplacer == [list_ |-> <<>>, ref_ |-> <<>>, header_ |-> END]

\* The loop of Victim, from iterator position it.  fuel bounds the loop: each
\* pass either returns or clears one bit, so 2*Len+1 passes are enough whenever
\* the loop terminates at all.  steps counts the entries inspected.
RECURSIVE VictimScan(_, _, _)

\* The loop of Victim without ref_.erase(ref_it).
VictimScan_KeepRef(r, it, fuel) ==
  IF r.list_ = <<>> \/ DOMAIN r.ref_ = {}
  THEN [ok |-> FALSE, frame |-> NULL, r |-> r, hang |-> FALSE, steps |-> 0]
  ELSE IF fuel = 0
  THEN [ok |-> FALSE, frame |-> NULL, r |-> r, hang |-> TRUE, steps |-> 0]
  ELSE LET f == r.list_[it] IN
    IF f \in DOMAIN r.ref_ /\ ~r.ref_[f]
    THEN [ok |-> TRUE, frame |-> f, hang |-> FALSE,
          steps |-> 2 * Len(r.list_) + 2 - fuel,
          r |-> [list_   |-> RemoveAt(r.list_, it),
                 ref_    |-> r.ref_,
                 header_ |-> IF it = Len(r.list_) THEN END ELSE it]]
    ELSE VictimScan(IF f \in DOMAIN r.ref_ THEN [r EXCEPT !.ref_[f] = FALSE] ELSE r,
                    IF it = Len(r.list_) THEN 1 ELSE it + 1,
                    fuel - 1)

VictimScan(r, it, fuel) ==
  IF r.list_ = <<>> \/ DOMAIN r.ref_ = {}
  THEN [ok |-> FALSE, frame |-> NULL, r |-> r, hang |-> FALSE, steps |-> 0]
  ELSE IF fuel = 0
  THEN [ok |-> FALSE, frame |-> NULL, r |-> r, hang |-> TRUE, steps |-> 0]
  ELSE LET f == r.list_[it] IN
    IF f \in DOMAIN r.ref_ /\ ~r.ref_[f]
    THEN [ok |-> TRUE, frame |-> f, hang |-> FALSE,
          steps |-> 2 * Len(r.list_) + 2 - fuel,
          r |-> [list_   |-> RemoveAt(r.list_, it),
                 ref_    |-> Erase(r.ref_, f),
                 header_ |-> IF it = Len(r.list_) THEN END ELSE it]]
    ELSE VictimScan(IF f \in DOMAIN r.ref_ THEN [r EXCEPT !.ref_[f] = FALSE] ELSE r,
                    IF it = Len(r.list_) THEN 1 ELSE it + 1,
                    fuel - 1)

Victim(r) ==
  IF r.list_ = <<>> \/ r.header_ = END
  THEN [ok |-> FALSE, frame |-> NULL, r |-> r, hang |-> FALSE, steps |-> 0]
  ELSE VictimScan(r, r.header_, 2 * Len(r.list_) + 1)

\* Pin reads *header_ without checking header_ against list_.end().  At end()
\* that read is undefined: atEnd is what the comparison then yields.  When it
\* yields true the code goes on to list_.erase(list_.end()), which destroys
\* the list (bad |-> TRUE).
Pin(r, frame_id, atEnd) ==
  LET hit == IF r.header_ = END THEN atEnd ELSE r.list_[r.header_] = frame_id IN
  IF hit
  THEN IF r.header_ = END
       THEN [r |-> r, bad |-> TRUE]
       ELSE [bad |-> FALSE,
             r |-> [list_   |-> RemoveAt(r.list_, r.header_),
                    ref_    |-> Erase(r.ref_, frame_id),
                    header_ |-> IF r.header_ = Len(r.list_) THEN END ELSE r.header_]]
  ELSE IF frame_id \in DOMAIN r.ref_
       THEN [bad |-> FALSE,
             r |-> [list_   |-> SelectSeq(r.list_, LAMBDA x : x # frame_id),
                    ref_    |-> Erase(r.ref_, frame_id),
                    header_ |-> IF r.header_ = END THEN END
                                ELSE r.header_ - Cardinality({i \in 1 .. (r.header_ - 1) :
                                                               r.list_[i] = frame_id})]]
       ELSE [r |-> r, bad |-> FALSE]

\* Unpin without the check that the frame is already in ref_.
Unpin_NoCheck(r, frame_id) ==
  [list_   |-> Append(r.list_, frame_id),
   ref_    |-> Put(r.ref_, frame_id, FALSE),
   header_ |-> IF r.header_ = END THEN 1 ELSE r.header_]

\* Unpin that sets the reference bit of the new entry.
Unpin_RefTrue(r, frame_id) ==
  IF frame_id \in DOMAIN r.ref_
  THEN r
  ELSE [list_   |-> Append(r.list_, frame_id),
        ref_    |-> Put(r.ref_, frame_id, TRUE),
        header_ |-> IF r.header_ = END THEN 1 ELSE r.header_]

Unpin(r, frame_id) ==
  IF frame_id \in DOMAIN r.ref_
  THEN r
  ELSE [list_   |-> Append(r.list_, frame_id),
        ref_    |-> Put(r.ref_, frame_id, FALSE),
        header_ |-> IF r.header_ = END THEN 1 ELSE r.header_]

Size(r) == Len(r.list_)

\* ---- Page and DiskManager ----
Page == [data |-> 0, pin_count_ |-> 0, is_dirty_ |-> FALSE, wlatch |-> FALSE]

GetPinCount(f) == pages_[f].pin_count_

IsDirty(f) == pages_[f].is_dirty_

GetData(f) == pages_[f].data

ReadPage(d, p) == d[p]

WritePage(d, p, bytes) == [d EXCEPT ![p] = bytes]

\* frame_table_[f] of an unordered_map: a missing key reads as page id 0
FrameTableAt(f) == IF f \in DOMAIN frame_table_ THEN frame_table_[f] ELSE 0

\* ---- the record of the call that just returned ----
Call(op, arg, dirty, ret, src, evicted, writes, deallocs) ==
  [op |-> op, arg |-> arg, dirty |-> dirty, ret |-> ret, src |-> src,
   evicted |-> evicted, writes |-> writes, deallocs |-> deallocs,
   \* ReadPage is called on the two miss paths of FetchPageImpl (lines 61, 93)
   reads |-> IF op = "fetch" /\ src \in {"free", "victim"} THEN <<arg>> ELSE <<>>]

\* a thread that is in no call
Idle == [pc |-> "idle", want |-> NULL, ret |-> NULL, reads |-> <<>>]

NoCall == Call("init", NULL, FALSE, NULL, "none", NULL, <<>>, <<>>)

Init ==
  /\ page_table_ = <<>>
  /\ frame_table_ = <<>>
  /\ free_list_ = [i \in 1 .. PoolSize |-> i - 1]
  /\ pages_ = [f \in Frames |-> Page]
  /\ replacer_ = NewReplacer
  /\ disk = [p \in PageIds |-> 0]
  /\ next_page_id = 0
  /\ pins = [p \in PageIds |-> 0]
  /\ dirtied = [p \in PageIds |-> FALSE]
  /\ last = NoCall
  /\ crashed = FALSE
  /\ latch_ = NONE
  /\ thr = [t \in Threads |-> Idle]


\* ---- BufferPoolManager ----

\* The process stops inside the call: nothing is returned.
Crash ==
  /\ crashed' = TRUE
  /\ last' = Call("crash", NULL, FALSE, NULL, "none", NULL, <<>>, <<>>)
  /\ UNCHANGED <<page_table_, frame_table_, free_list_, pages_, replacer_, disk,
                 next_page_id, pins, dirtied>>

\* Rebind without the erase of the victim's page-table entry.
Rebind_NoErase(op, p, v, load) ==
  LET f       == v.frame
      old     == FrameTableAt(f)
      writes  == IF IsDirty(f) THEN << <<old, GetData(f)>> >> ELSE <<>>
      disk1   == IF IsDirty(f) THEN WritePage(disk, old, GetData(f)) ELSE disk
  IN /\ disk' = disk1
     /\ page_table_' = Put(page_table_, p, f)
     /\ frame_table_' = Put(frame_table_, f, p)
     /\ pages_' = IF load THEN [pages_ EXCEPT ![f].data = ReadPage(disk1, p)] ELSE pages_
     /\ replacer_' = v.r
     /\ pins' = [pins EXCEPT ![old] = 0, ![p] = 1]
     /\ dirtied' = [dirtied EXCEPT ![old] = FALSE]
     /\ last' = Call(op, p, FALSE, f, "victim", old, writes, <<>>)

\* Lines 74-95 of FetchPageImpl and 147-164 of NewPageImpl: write the victim
\* frame back if its dirty flag is set, drop its page from the page table and
\* bind the frame to page p.  load: the frame is filled from disk (fetch).
Rebind(op, p, v, load) ==
  LET f       == v.frame
      old     == FrameTableAt(f)
      writes  == IF IsDirty(f) THEN << <<old, GetData(f)>> >> ELSE <<>>
      disk1   == IF IsDirty(f) THEN WritePage(disk, old, GetData(f)) ELSE disk
  IN /\ disk' = disk1
     /\ page_table_' = Put(Erase(page_table_, old), p, f)
     /\ frame_table_' = Put(frame_table_, f, p)
     /\ pages_' = IF load THEN [pages_ EXCEPT ![f].data = ReadPage(disk1, p)] ELSE pages_
     /\ replacer_' = v.r
     /\ pins' = [pins EXCEPT ![old] = 0, ![p] = 1]
     /\ dirtied' = [dirtied EXCEPT ![old] = FALSE]
     /\ last' = Call(op, p, FALSE, f, "victim", old, writes, <<>>)

FetchPageImpl(page_id, atEnd) ==
  /\ ~crashed
  /\ page_id < next_page_id
  /\ pins[page_id] < MaxPins
  /\ IF page_id \in DOMAIN page_table_
     THEN LET f  == page_table_[page_id]
              pr == Pin(replacer_, f, atEnd)
          IN IF pr.bad
             THEN Crash
             ELSE /\ replacer_' = pr.r
                  /\ pins' = [pins EXCEPT ![page_id] = @ + 1]
                  /\ last' = Call("fetch", page_id, FALSE, f, "hit", NULL, <<>>, <<>>)
                  /\ crashed' = FALSE
                  /\ UNCHANGED <<page_table_, frame_table_, free_list_, pages_, disk,
                                 next_page_id, dirtied>>
     ELSE IF free_list_ # <<>>
     THEN LET f == Head(free_list_)
          IN /\ free_list_' = Tail(free_list_)
             /\ page_table_' = Put(page_table_, page_id, f)
             /\ frame_table_' = Put(frame_table_, f, page_id)
             /\ pages_' = [pages_ EXCEPT ![f].data = ReadPage(disk, page_id)]
             /\ replacer_' = Unpin(replacer_, f)
             /\ pins' = [pins EXCEPT ![page_id] = @ + 1]
             /\ last' = Call("fetch", page_id, FALSE, f, "free", NULL, <<>>, <<>>)
             /\ crashed' = FALSE
             /\ UNCHANGED <<disk, next_page_id, dirtied>>
     ELSE LET v == Victim(replacer_)
          IN IF v.hang
             THEN Crash
             ELSE IF ~v.ok
             THEN /\ replacer_' = v.r
                  /\ last' = Call("fetch", page_id, FALSE, NULL, "none", NULL, <<>>, <<>>)
                  /\ crashed' = FALSE
                  /\ UNCHANGED <<page_table_, frame_table_, free_list_, pages_, disk,
                                 next_page_id, pins, dirtied>>
             ELSE /\ Rebind("fetch", page_id, v, TRUE)
                  /\ crashed' = FALSE
                  /\ UNCHANGED <<free_list_, next_page_id>>

\* UnpinPageImpl without the page-table lookup failing: an unknown page is
\* reported as unpinned.
UnpinPageImpl_NoLookup(page_id, is_dirty) ==
  /\ ~crashed
  /\ crashed' = FALSE
  /\ IF page_id \notin DOMAIN page_table_
     THEN /\ last' = Call("unpin", page_id, is_dirty, TRUE, "none", NULL, <<>>, <<>>)
          /\ UNCHANGED <<page_table_, frame_table_, free_list_, pages_, replacer_, disk,
                         next_page_id, pins, dirtied>>
     ELSE LET f == page_table_[page_id]
          IN /\ disk' = IF is_dirty THEN WritePage(disk, page_id, GetData(f)) ELSE disk
             /\ replacer_' = Unpin(replacer_, f)
             /\ pins' = [pins EXCEPT ![page_id] = IF @ > 0 THEN @ - 1 ELSE 0]
             /\ dirtied' = [dirtied EXCEPT ![page_id] = @ \/ is_dirty]
             /\ last' = Call("unpin", page_id, is_dirty, TRUE, "none", NULL,
                             IF is_dirty THEN << <<page_id, GetData(f)>> >> ELSE <<>>, <<>>)
             /\ UNCHANGED <<page_table_, frame_table_, free_list_, pages_, next_page_id>>

UnpinPageImpl(page_id, is_dirty) ==
  /\ ~crashed
  /\ crashed' = FALSE
  /\ IF page_id \notin DOMAIN page_table_
     THEN /\ last' = Call("unpin", page_id, is_dirty, FALSE, "none", NULL, <<>>, <<>>)
          /\ UNCHANGED <<page_table_, frame_table_, free_list_, pages_, replacer_, disk,
                         next_page_id, pins, dirtied>>
     ELSE LET f == page_table_[page_id]
          IN /\ disk' = IF is_dirty THEN WritePage(disk, page_id, GetData(f)) ELSE disk
             /\ replacer_' = Unpin(replacer_, f)
             /\ pins' = [pins EXCEPT ![page_id] = IF @ > 0 THEN @ - 1 ELSE 0]
             /\ dirtied' = [dirtied EXCEPT ![page_id] = @ \/ is_dirty]
             /\ last' = Call("unpin", page_id, is_dirty, TRUE, "none", NULL,
                             IF is_dirty THEN << <<page_id, GetData(f)>> >> ELSE <<>>, <<>>)
             /\ UNCHANGED <<page_table_, frame_table_, free_list_, pages_, next_page_id>>

\* FlushPageImpl that writes only a frame whose dirty flag is set.
FlushPageImpl_DirtyOnly(page_id) ==
  /\ ~crashed
  /\ crashed' = FALSE
  /\ IF page_id \notin DOMAIN page_table_
     THEN /\ last' = Call("flush", page_id, FALSE, FALSE, "none", NULL, <<>>, <<>>)
          /\ UNCHANGED <<page_table_, frame_table_, free_list_, pages_, replacer_, disk,
                         next_page_id, pins, dirtied>>
     ELSE LET f == page_table_[page_id]
          IN /\ disk' = IF IsDirty(f) THEN WritePage(disk, page_id, GetData(f)) ELSE disk
             /\ dirtied' = [dirtied EXCEPT ![page_id] = FALSE]
             /\ last' = Call("flush", page_id, FALSE, TRUE, "none", NULL,
                             IF IsDirty(f) THEN << <<page_id, GetData(f)>> >> ELSE <<>>, <<>>)
             /\ UNCHANGED <<page_table_, frame_table_, free_list_, pages_, replacer_,
                            next_page_id, pins>>

FlushPageImpl(page_id) ==
  /\ ~crashed
  /\ crashed' = FALSE
  /\ IF page_id \notin DOMAIN page_table_
     THEN /\ last' = Call("flush", page_id, FALSE, FALSE, "none", NULL, <<>>, <<>>)
          /\ UNCHANGED <<page_table_, frame_table_, free_list_, pages_, replacer_, disk,
                         next_page_id, pins, dirtied>>
     ELSE LET f == page_table_[page_id]
          IN /\ disk' = WritePage(disk, page_id, GetData(f))
             /\ dirtied' = [dirtied EXCEPT ![page_id] = FALSE]
             /\ last' = Call("flush", page_id, FALSE, TRUE, "none", NULL,
                             << <<page_id, GetData(f)>> >>, <<>>)
             /\ UNCHANGED <<page_table_, frame_table_, free_list_, pages_, replacer_,
                            next_page_id, pins>>

NewPageImpl ==
  /\ ~crashed
  /\ next_page_id < MaxPages
  /\ IF free_list_ # <<>>
     THEN LET f == Head(free_list_)
          IN /\ free_list_' = Tail(free_list_)
             /\ next_page_id' = next_page_id + 1
             /\ page_table_' = Put(page_table_, next_page_id, f)
             /\ frame_table_' = Put(frame_table_, f, next_page_id)
             /\ pins' = [pins EXCEPT ![next_page_id] = @ + 1]
             /\ last' = Call("new", next_page_id, FALSE, f, "free", NULL, <<>>, <<>>)
             /\ crashed' = FALSE
             /\ UNCHANGED <<pages_, replacer_, disk, dirtied>>
     ELSE LET v == Victim(replacer_)
          IN IF Size(replacer_) > 0 /\ v.hang
             THEN Crash
             ELSE IF Size(replacer_) > 0 /\ v.ok
             THEN /\ Rebind("new", next_page_id, v, FALSE)
                  /\ next_page_id' = next_page_id + 1
                  /\ crashed' = FALSE
                  /\ UNCHANGED free_list_
             ELSE /\ replacer_' = IF Size(replacer_) > 0 THEN v.r ELSE replacer_
                  /\ last' = Call("new", NULL, FALSE, NULL, "none", NULL, <<>>, <<>>)
                  /\ crashed' = FALSE
                  /\ UNCHANGED <<page_table_, frame_table_, free_list_, pages_, disk,
                                 next_page_id, pins, dirtied>>

\* DeletePageImpl without frame_table_.erase(frame_id).
DeletePageImpl_KeepFrame(page_id) ==
  /\ ~crashed
  /\ crashed' = FALSE
  /\ IF page_id \notin DOMAIN page_table_
     THEN /\ last' = Call("delete", page_id, FALSE, TRUE, "none", NULL, <<>>, <<>>)
          /\ UNCHANGED <<page_table_, frame_table_, free_list_, pages_, replacer_, disk,
                         next_page_id, pins, dirtied>>
     ELSE LET f == page_table_[page_id]
          IN /\ pages_' = [pages_ EXCEPT ![f].data = 0]
             /\ page_table_' = Erase(page_table_, page_id)
             /\ frame_table_' = frame_table_
             /\ free_list_' = Append(free_list_, f)
             /\ dirtied' = [dirtied EXCEPT ![page_id] = FALSE]
             /\ last' = Call("delete", page_id, FALSE, TRUE, "none", NULL, <<>>, <<page_id>>)
             /\ pins' = [pins EXCEPT ![page_id] = 0]
             /\ UNCHANGED <<replacer_, disk, next_page_id>>

DeletePageImpl(page_id) ==
  /\ ~crashed
  /\ crashed' = FALSE
  /\ IF page_id \notin DOMAIN page_table_
     THEN /\ last' = Call("delete", page_id, FALSE, TRUE, "none", NULL, <<>>, <<>>)
          /\ UNCHANGED <<page_table_, frame_table_, free_list_, pages_, replacer_, disk,
                         next_page_id, pins, dirtied>>
     ELSE LET f == page_table_[page_id]
          IN IF GetPinCount(f) > 0
             THEN /\ pages_' = [pages_ EXCEPT ![f].wlatch = TRUE]
                  /\ last' = Call("delete", page_id, FALSE, FALSE, "none", NULL, <<>>, <<>>)
                  /\ UNCHANGED <<page_table_, frame_table_, free_list_, replacer_, disk,
                                 next_page_id, pins, dirtied>>
             ELSE /\ pages_' = [pages_ EXCEPT ![f].data = 0]
                  /\ page_table_' = Erase(page_table_, page_id)
                  /\ frame_table_' = Erase(frame_table_, f)
                  /\ free_list_' = Append(free_list_, f)
                  /\ dirtied' = [dirtied EXCEPT ![page_id] = FALSE]
                  /\ last' = Call("delete", page_id, FALSE, TRUE, "none", NULL, <<>>, <<page_id>>)
                  /\ pins' = [pins EXCEPT ![page_id] = 0]
                  /\ UNCHANGED <<replacer_, disk, next_page_id>>

\* The loop writes every resident page; the order of an unordered_map is
\* unspecified, so the writes are recorded in ascending page id.
RECURSIVE WritesOf(_)
WritesOf(ps) ==
  IF ps = {} THEN <<>>
  ELSE LET p == CHOOSE x \in ps : \A y \in ps : x <= y
       IN << <<p, GetData(page_table_[p])>> >> \o WritesOf(ps \ {p})

FlushAllPagesImpl ==
  /\ ~crashed
  /\ crashed' = FALSE
  /\ disk' = [p \in PageIds |-> IF p \in DOMAIN page_table_
                                 THEN GetData(page_table_[p]) ELSE disk[p]]
  /\ dirtied' = [p \in PageIds |-> IF p \in DOMAIN page_table_ THEN FALSE ELSE dirtied[p]]
  /\ last' = Call("flush_all", NULL, FALSE, TRUE, "none", NULL, WritesOf(DOMAIN page_table_), <<>>)
  /\ UNCHANGED <<page_table_, frame_table_, free_list_, pages_, replacer_,
                 next_page_id, pins>>

\* A caller that holds a reference to the page in frame f writes its bytes
\* through Page::GetData().
CallerWrite(f, bytes) ==
  /\ ~crashed
  /\ crashed' = FALSE
  /\ f \in DOMAIN frame_table_
  /\ pins[frame_table_[f]] > 0
  /\ pages_[f].data # bytes
  /\ pages_' = [pages_ EXCEPT ![f].data = bytes]
  /\ last' = Call("write", NULL, FALSE, NULL, "none", NULL, <<>>, <<>>)
  /\ UNCHANGED <<page_table_, frame_table_, free_list_, replacer_, disk,
                 next_page_id, pins, dirtied>>

\* One caller: no thread is waiting for or holding the pool latch between
\* two calls.
Sequential == UNCHANGED <<latch_, thr>>

\* The calls of the BufferPoolManager interface, made by that one caller.
FetchPage(page_id, atEnd) == FetchPageImpl(page_id, atEnd) /\ Sequential

UnpinPage(page_id, is_dirty) == UnpinPageImpl(page_id, is_dirty) /\ Sequential

FlushPage(page_id) == FlushPageImpl(page_id) /\ Sequential

NewPage == NewPageImpl /\ Sequential

DeletePage(page_id) == DeletePageImpl(page_id) /\ Sequential

FlushAllPages == FlushAllPagesImpl /\ Sequential

WriteData(f, bytes) == CallerWrite(f, bytes) /\ Sequential

Next ==
  \/ \E p \in PageIds, atEnd \in BOOLEAN : FetchPage(p, atEnd)
  \/ \E p \in PageIds, d \in BOOLEAN : UnpinPage(p, d)
  \/ \E p \in PageIds : FlushPage(p)
  \/ NewPage
  \/ \E p \in PageIds : DeletePage(p)
  \/ FlushAllPages

Spec == Init /\ [][Next]_vars

\* The write-back path: callers that fetch, create, modify, unpin and flush
\* pages.
NextData ==
  \/ \E p \in PageIds, atEnd \in BOOLEAN : FetchPage(p, atEnd)
  \/ \E p \in PageIds, d \in BOOLEAN : UnpinPage(p, d)
  \/ \E p \in PageIds : FlushPage(p)
  \/ NewPage
  \/ FlushAllPages
  \/ \E f \in Frames, b \in Bytes : WriteData(f, b)

SpecData == Init /\ [][NextData]_vars

\* ---- concurrent callers ----
\* Every public operation starts with std::lock_guard lock(latch_) and holds
\* the latch to its return, so a call is: wait for the latch, take it, run the
\* body, release at the return.

\* thread t enters a public operation and waits for the pool latch
ThreadCall(t) ==
  /\ ~crashed
  /\ thr[t].pc = "idle"
  /\ thr[t].want = NULL
  /\ thr' = [thr EXCEPT ![t].pc = "lock"]
  /\ UNCHANGED <<page_table_, frame_table_, free_list_, pages_, replacer_, disk,
                 next_page_id, pins, dirtied, last, crashed, latch_>>

\* std::lock_guard lock(latch_): the constructor returns once the latch is free
ThreadLock(t) ==
  /\ ~crashed
  /\ thr[t].pc = "lock"
  /\ latch_ = NONE
  /\ latch_' = t
  /\ thr' = [thr EXCEPT ![t].pc = "body"]
  /\ UNCHANGED <<page_table_, frame_table_, free_list_, pages_, replacer_, disk,
                 next_page_id, pins, dirtied, last, crashed>>

\* RLatch/WLatch on a frame blocks while an earlier call has left the frame's
\* writer latch held (the return at line 186 of DeletePageImpl)
FrameLatchesFree == \A f \in Frames : ~pages_[f].wlatch

\* the return of the body: the lock_guard releases the latch, unless the
\* process stopped inside the body.  A racing thread keeps what its
\* fetch_page returned and the reads it caused.
ThreadReturn(t) ==
  IF crashed'
  THEN UNCHANGED <<latch_, thr>>
  ELSE /\ latch_' = NONE
       /\ thr' = [thr EXCEPT ![t] = IF thr[t].want = NULL
                                    THEN Idle
                                    ELSE [pc |-> "idle", want |-> thr[t].want,
                                          ret |-> last'.ret, reads |-> last'.reads]]

\* thread t, holding the pool latch, runs the body of any public operation
ThreadBody(t) ==
  /\ thr[t].pc = "body"
  /\ thr[t].want = NULL
  /\ latch_ = t
  /\ FrameLatchesFree
  /\ \/ \E p \in PageIds, atEnd \in BOOLEAN : FetchPageImpl(p, atEnd)
     \/ \E p \in PageIds, d \in BOOLEAN : UnpinPageImpl(p, d)
     \/ \E p \in PageIds : FlushPageImpl(p)
     \/ NewPageImpl
     \/ \E p \in PageIds : DeletePageImpl(p)
     \/ FlushAllPagesImpl
  /\ ThreadReturn(t)

NextThreads ==
  \/ \E t \in Threads : ThreadCall(t)
  \/ \E t \in Threads : ThreadLock(t)
  \/ \E t \in Threads : ThreadBody(t)

SpecThreads == Init /\ [][NextThreads]_vars

\* ---- two threads that fetch the same page ----
\* the two threads of the race
Racers == {1, 2}

Racing == \E t \in Racers : thr[t].want # NULL

\* the single caller prepares the pool
RaceSetup == ~Racing /\ Next

\* both threads call fetch_page(x) for a known page x that is not resident
StartRace(x) ==
  /\ ~crashed
  /\ ~Racing
  /\ latch_ = NONE
  /\ x < next_page_id
  /\ x \notin DOMAIN page_table_
  /\ thr' = [t \in Threads |-> IF t \in Racers
                               THEN [pc |-> "lock", want |-> x, ret |-> NULL, reads |-> <<>>]
                               ELSE thr[t]]
  /\ UNCHANGED <<page_table_, frame_table_, free_list_, pages_, replacer_, disk,
                 next_page_id, pins, dirtied, last, crashed, latch_>>

\* thread t, holding the pool latch, runs the body of FetchPageImpl
FetchBody(t) ==
  /\ thr[t].pc = "body"
  /\ thr[t].want # NULL
  /\ latch_ = t
  /\ FrameLatchesFree
  /\ \E atEnd \in BOOLEAN : FetchPageImpl(thr[t].want, atEnd)
  /\ ThreadReturn(t)

NextRace ==
  \/ RaceSetup
  \/ \E x \in PageIds : StartRace(x)
  \/ \E t \in Racers : ThreadLock(t)
  \/ \E t \in Racers : FetchBody(t)

SpecRace == Init /\ [][NextRace]_vars

\* ---- the ClockReplacer on its own ----
NumFrames == 4    \* frame ids 0..NumFrames-1 are passed to the replacer

ReplacerFrames == 0 .. (NumFrames - 1)

VictimCall ==
  /\ ~crashed
  /\ UNCHANGED <<latch_, thr>>
  /\ LET v == Victim(replacer_)
     IN IF v.hang
        THEN Crash
        ELSE /\ replacer_' = v.r
             /\ last' = Call("replacer.victim", NULL, FALSE, v.frame, "none", NULL, <<>>, <<>>)
             /\ crashed' = FALSE
             /\ UNCHANGED <<page_table_, frame_table_, free_list_, pages_, disk,
                            next_page_id, pins, dirtied>>

PinCall(frame_id, atEnd) ==
  /\ ~crashed
  /\ UNCHANGED <<latch_, thr>>
  /\ LET pr == Pin(replacer_, frame_id, atEnd)
     IN IF pr.bad
        THEN Crash
        ELSE /\ replacer_' = pr.r
             /\ last' = Call("replacer.pin", frame_id, FALSE, NULL, "none", NULL, <<>>, <<>>)
             /\ crashed' = FALSE
             /\ UNCHANGED <<page_table_, frame_table_, free_list_, pages_, disk,
                            next_page_id, pins, dirtied>>

UnpinCall(frame_id) ==
  /\ ~crashed
  /\ UNCHANGED <<latch_, thr>>
  /\ replacer_' = Unpin(replacer_, frame_id)
  /\ last' = Call("replacer.unpin", frame_id, FALSE, NULL, "none", NULL, <<>>, <<>>)
  /\ crashed' = FALSE
  /\ UNCHANGED <<page_table_, frame_table_, free_list_, pages_, disk,
                 next_page_id, pins, dirtied>>

SizeCall ==
  /\ ~crashed
  /\ UNCHANGED <<latch_, thr>>
  /\ last' = Call("replacer.size", NULL, FALSE, Size(replacer_), "none", NULL, <<>>, <<>>)
  /\ crashed' = FALSE
  /\ UNCHANGED <<page_table_, frame_table_, free_list_, pages_, replacer_, disk,
                 next_page_id, pins, dirtied>>

NextReplacer ==
  \/ VictimCall
  \/ \E f \in ReplacerFrames, atEnd \in BOOLEAN : PinCall(f, atEnd)
  \/ \E f \in ReplacerFrames : UnpinCall(f)
  \/ SizeCall

SpecReplacer == Init /\ [][NextReplacer]_vars

TypeOK ==
  /\ DOMAIN page_table_ \subseteq PageIds
  /\ \A p \in DOMAIN page_table_ : page_table_[p] \in Frames
  /\ DOMAIN frame_table_ \subseteq Frames
  /\ Range(free_list_) \subseteq Frames
  /\ next_page_id \in 0 .. MaxPages
  /\ \A p \in PageIds : pins[p] \in 0 .. MaxPins

\* ---- vocabulary of the properties ----
Resident(p) == p \in DOMAIN page_table_

Evictable(f) == f \in Range(replacer_.list_)

Returned(c) == c.op \in {"fetch", "new"} /\ c.ret # NULL

\* every frame holds a page that some caller still has pinned
AllPinned ==
  /\ free_list_ = <<>>
  /\ \A f \in Frames : f \in DOMAIN frame_table_ /\ pins[frame_table_[f]] > 0

\* C1: a resident page that its callers still hold pinned keeps its frame
\* across every fetch_page and new_page: it is never the eviction victim.
C1_PinnedNeverEvicted ==
  [][last'.op \in {"fetch", "new"} =>
       \A p \in DOMAIN page_table_ :
          pins[p] > 0 => (p \in DOMAIN page_table_' /\ page_table_'[p] = page_table_[p])]_vars

\* C2: the frame that fetch_page or new_page returns is pinned: at the return
\* it is not in the replacer's evictable set.
C2_ReturnedPinned == Returned(last) => ~Evictable(last.ret)

\* C3: with every frame pinned, fetch_page of a non-resident page and new_page
\* return null and leave page table, frame table, free list and replacer as
\* they were; with a free or unpinned frame they return a frame.
C3_PoolExhausted ==
  [][last'.op \in {"fetch", "new"} =>
       IF AllPinned
       THEN (last'.op = "new" \/ ~Resident(last'.arg)) =>
               /\ last'.ret = NULL
               /\ UNCHANGED <<page_table_, frame_table_, free_list_, replacer_>>
       ELSE last'.ret # NULL]_vars

\* C4: delete_page of a resident page that is still pinned returns false, keeps
\* the page in the page table, keeps its frame off the free list and does not
\* call deallocate_page.
C4_PinnedDelete ==
  [][(last'.op = "delete" /\ Resident(last'.arg) /\ pins[last'.arg] > 0) =>
       /\ last'.ret = FALSE
       /\ last'.deallocs = <<>>
       /\ UNCHANGED <<page_table_, frame_table_, free_list_>>]_vars

\* C5: unpin_page of a resident page whose pin count is already zero returns
\* false and leaves the pin state and the replacer unchanged.
C5_AlreadyUnpinned ==
  [][(last'.op = "unpin" /\ Resident(last'.arg) /\ pins[last'.arg] = 0) =>
       /\ last'.ret = FALSE
       /\ UNCHANGED <<pins, replacer_>>
       /\ \A f \in Frames : pages_'[f].pin_count_ = pages_[f].pin_count_]_vars

\* C6: for a page id that is not in the page table unpin_page and flush_page
\* return false and delete_page returns true; the tables, the free list, the
\* replacer, the frames and the disk stay as they were and neither write_page
\* nor deallocate_page is called.
C6_UnknownPage ==
  [][(last'.op \in {"unpin", "flush", "delete"} /\ ~Resident(last'.arg)) =>
       /\ last'.ret = (last'.op = "delete")
       /\ last'.writes = <<>>
       /\ last'.deallocs = <<>>
       /\ UNCHANGED <<page_table_, frame_table_, free_list_, replacer_, pages_, disk>>]_vars

\* an unpin_page of a page that was allocated but is no longer resident,
\* while another page is
C6_Witness ==
  /\ last.op = "unpin"
  /\ last.ret = FALSE
  /\ last.arg < next_page_id
  /\ ~Resident(last.arg)
  /\ DOMAIN page_table_ # {}

\* C7: unpin_page(p, true) issues no write_page, and the disk changes only in
\* fetch_page/new_page (eviction) and flush_page/flush_all.
C7_UnpinDefersWrite ==
  [][/\ (last'.op = "unpin" /\ last'.dirty) => (last'.writes = <<>> /\ disk' = disk)
     /\ disk' # disk => last'.op \in {"fetch", "new", "flush", "flush_all"}]_vars

\* C8: an eviction in fetch_page or new_page writes the outgoing page with the
\* frame's bytes when that page was unpinned dirty and not flushed since, and
\* writes nothing when the outgoing page is clean.
C8_DirtyWriteBack ==
  [][(Returned(last') /\ last'.src = "victim") =>
       last'.writes = IF dirtied[last'.evicted]
                      THEN << <<last'.evicted, pages_[last'.ret].data>> >>
                      ELSE <<>>]_vars

\* C9: flush_page of a resident page returns true and writes the page with the
\* frame's current bytes, clean or not, so that the disk then holds the bytes
\* of the frame.
C9_FlushDurable ==
  [][(last'.op = "flush" /\ Resident(last'.arg)) =>
       LET f == page_table_[last'.arg]
       IN /\ last'.ret = TRUE
          /\ last'.writes = << <<last'.arg, pages_[f].data>> >>
          /\ disk'[last'.arg] = pages_'[f].data
          /\ pages_' = pages_
          /\ page_table_' = page_table_]_vars

\* a flush_page of a pinned page whose frame holds bytes a caller wrote: the
\* disk now holds them
C9_Witness ==
  /\ last.op = "flush"
  /\ last.ret = TRUE
  /\ Resident(last.arg)
  /\ pages_[page_table_[last.arg]].data # 0
  /\ disk[last.arg] = pages_[page_table_[last.arg]].data
  /\ pins[last.arg] > 0

\* C10: every frame is either on the free list or bound in the page table,
\* never both and never neither, the free list has no duplicates, and
\* |page_table| + |free_list| = pool_size.
C10_Capacity ==
  /\ \A f \in Frames :
        (f \in Range(free_list_)) # (f \in {page_table_[p] : p \in DOMAIN page_table_})
  /\ Cardinality(Range(free_list_)) = Len(free_list_)
  /\ Cardinality(DOMAIN page_table_) + Len(free_list_) = PoolSize

\* a delete_page has put a frame back on the free list after every page id
\* was handed out (so frames were rebound by eviction) while a page is resident
C10_Witness ==
  /\ last.op = "delete"
  /\ last.deallocs # <<>>
  /\ next_page_id = MaxPages
  /\ free_list_ # <<>>
  /\ Cardinality(DOMAIN page_table_) > 0

\* C11: the page table and the frame table are inverse to each other: every
\* resident page's frame maps back to the page, every bound frame's page maps
\* back to the frame, and no two pages share a frame.
C11_Bijection ==
  /\ \A p \in DOMAIN page_table_ :
        page_table_[p] \in DOMAIN frame_table_ /\ frame_table_[page_table_[p]] = p
  /\ \A f \in DOMAIN frame_table_ :
        frame_table_[f] \in DOMAIN page_table_ /\ page_table_[frame_table_[f]] = f
  /\ \A p, q \in DOMAIN page_table_ : p # q => page_table_[p] # page_table_[q]

\* a fetch_page has rebound a victim frame while the other frame holds
\* another page
C11_Witness ==
  /\ last.op = "fetch"
  /\ last.src = "victim"
  /\ Cardinality(DOMAIN page_table_) = PoolSize

\* C12: a frame is in the replacer exactly when it is bound to a page whose
\* pin count is zero, so the replacer's size is the number of such frames.
C12_EvictableSet ==
  LET unpinned == {f \in DOMAIN frame_table_ : pins[frame_table_[f]] = 0}
  IN /\ \A f \in Frames : Evictable(f) <=> f \in unpinned
     /\ Size(replacer_) = Cardinality(unpinned)

\* C17: a delete_page that returns true for a resident, unpinned page leaves
\* the page in neither table, its frame exactly once on the free list and out
\* of the replacer, and calls deallocate_page for it exactly once.
C17_DeleteSuccess ==
  [][(last'.op = "delete" /\ last'.ret = TRUE /\ Resident(last'.arg) /\ pins[last'.arg] = 0) =>
       LET f == page_table_[last'.arg]
       IN /\ last'.arg \notin DOMAIN page_table_'
          /\ f \notin DOMAIN frame_table_'
          /\ \A g \in DOMAIN frame_table_' : frame_table_'[g] # last'.arg
          /\ Cardinality({i \in DOMAIN free_list_' : free_list_'[i] = f}) = 1
          /\ f \notin Range(replacer_'.list_)
          /\ last'.deallocs = <<last'.arg>>]_vars

\* C18: the frame a successful new_page returns holds only zero bytes, the
\* page id it reports is the freshly allocated one, and that id maps to the
\* returned frame.
C18_NewPageZeroed ==
  [][(last'.op = "new" /\ last'.ret # NULL) =>
       /\ pages_'[last'.ret].data = 0
       /\ last'.arg = next_page_id
       /\ last'.arg \in DOMAIN page_table_'
       /\ page_table_'[last'.arg] = last'.ret]_vars

\* ---- the CLOCK policy as section 4.1 of the specification words it ----
\* position of the k-th entry inspected when the scan starts at hand h of n
ScanPos(h, n, k) == ((h - 1 + k) % n) + 1

\* victim on L, R, hand: the entries inspected before the first one whose bit
\* is false lose their bit, that one is removed, the hand moves to its
\* successor (wrapping), or to END when L becomes empty.
ClockVictim(r) ==
  IF r.list_ = <<>> \/ r.header_ = END
  THEN [frame |-> NULL, r |-> r, inspected |-> 0]
  ELSE LET n  == Len(r.list_)
           \* bit of the entry at scan step k, after the earlier steps cleared theirs
           bitAt(k) == IF k >= n THEN FALSE ELSE r.ref_[r.list_[ScanPos(r.header_, n, k)]]
           k0 == CHOOSE k \in 0 .. n : ~bitAt(k) /\ \A j \in 0 .. (k - 1) : bitAt(j)
           pos == ScanPos(r.header_, n, k0)
           f   == r.list_[pos]
           passed == {r.list_[ScanPos(r.header_, n, j)] : j \in 0 .. (k0 - 1)}
       IN [frame |-> f,
           inspected |-> k0 + 1,
           r |-> [list_   |-> RemoveAt(r.list_, pos),
                  ref_    |-> [g \in (DOMAIN r.ref_) \ {f} |->
                                 IF g \in passed THEN FALSE ELSE r.ref_[g]],
                  header_ |-> IF n = 1 THEN END ELSE IF pos = n THEN 1 ELSE pos]]

\* C14: victim fails exactly when L is empty; otherwise it returns the first
\* entry from the hand whose bit is false, clearing the bits it passes and no
\* others, removes that entry from L and R, moves the hand to the next element
\* (wrapping, END when L is empty) and inspects at most 2*|L| entries.
C14_Victim ==
  [][last'.op = "replacer.victim" =>
       /\ (last'.ret = NULL) <=> (replacer_.list_ = <<>>)
       /\ last'.ret = ClockVictim(replacer_).frame
       /\ replacer_' = ClockVictim(replacer_).r
       /\ Victim(replacer_).steps <= 2 * Len(replacer_.list_)]_vars

\* a victim was taken from a replacer that held three frames: two remain and
\* the hand is on the first of them
C14_Witness ==
  /\ last.op = "replacer.victim"
  /\ last.ret # NULL
  /\ Len(replacer_.list_) = 2
  /\ replacer_.header_ = 1

\* C15: pin of a frame that is not in R changes neither L, R nor the hand, in
\* every replacer state, the empty one included, and no replacer operation
\* runs into the undefined read of the hand at END.
C15_PinAbsent ==
  [][/\ ~crashed'
     /\ (last'.op = "replacer.pin" /\ last'.arg \notin DOMAIN replacer_.ref_) =>
           (replacer_' = replacer_ /\ Size(replacer_') = Size(replacer_))]_vars

\* C16: unpin of a frame already in R changes nothing; unpin of a frame not in
\* R appends it at the tail of L with bit false, grows size() by one and moves
\* the hand to the head only when it was at END.
C16_UnpinIdempotent ==
  [][last'.op = "replacer.unpin" =>
       IF last'.arg \in DOMAIN replacer_.ref_
       THEN replacer_' = replacer_
       ELSE /\ replacer_'.list_ = Append(replacer_.list_, last'.arg)
            /\ DOMAIN replacer_'.ref_ = (DOMAIN replacer_.ref_) \cup {last'.arg}
            /\ replacer_'.ref_[last'.arg] = FALSE
            /\ \A g \in DOMAIN replacer_.ref_ : replacer_'.ref_[g] = replacer_.ref_[g]
            /\ Size(replacer_') = Size(replacer_) + 1
            /\ replacer_'.header_ = IF replacer_.header_ = END THEN 1 ELSE replacer_.header_]_vars

\* an unpin of a frame that is already in a replacer holding another frame
\* before it
C16_Witness ==
  /\ last.op = "replacer.unpin"
  /\ Len(replacer_.list_) >= 2
  /\ last.arg \in Range(replacer_.list_)
  /\ replacer_.list_[Len(replacer_.list_)] # last.arg

\* the entries of L are distinct and are the keys of R, every bit is false and
\* the hand is on the head of L (at END when L is empty)
ReplacerShape(r) ==
  /\ \A i, j \in DOMAIN r.list_ : i # j => r.list_[i] # r.list_[j]
  /\ Range(r.list_) = DOMAIN r.ref_
  /\ \A g \in DOMAIN r.ref_ : r.ref_[g] = FALSE
  /\ r.header_ = IF r.list_ = <<>> THEN END ELSE 1

\* C20: through every unpin, pin and victim call the replacer keeps that
\* shape, so victim returns the head of L, the frame that was unpinned
\* earliest, and gives no entry a second chance.
C20_Fifo ==
  [][/\ ReplacerShape(replacer_)
     /\ ReplacerShape(replacer_')
     /\ (last'.op = "replacer.victim" /\ replacer_.list_ # <<>>) =>
           (last'.ret = Head(replacer_.list_) /\ replacer_'.list_ = Tail(replacer_.list_))]_vars

\* a victim call has returned a frame with a larger id than the two frames
\* left behind it: the order is the order of the unpins, not of the ids
C20_Witness ==
  /\ last.op = "replacer.victim"
  /\ Len(replacer_.list_) = 2
  /\ last.ret > replacer_.list_[1]
  /\ last.ret > replacer_.list_[2]

\* both racing threads are back from fetch_page
RaceDone == \A t \in Racers : thr[t].want # NULL /\ thr[t].pc = "idle"

\* C13: two threads that call fetch_page(X) concurrently for a non-resident X
\* get the same frame, cause exactly one read_page(X) between them and leave
\* the frame with pin count 2.
C13_FetchCoalescing ==
  (RaceDone /\ \E t \in Racers : thr[t].ret # NULL) =>
     /\ thr[1].ret = thr[2].ret
     /\ thr[1].reads \o thr[2].reads = <<thr[1].want>>
     /\ GetPinCount(thr[1].ret) = 2

\* C19: a thread that is not inside a body does not hold the pool latch, no
\* frame latch stays held once the pool latch is free, and no call is left in
\* a state from which it cannot complete.
C19_LatchRelease ==
  /\ \A t \in Threads : thr[t].pc # "body" => latch_ # t
  /\ latch_ = NONE => FrameLatchesFree
  /\ \A t \in Threads : thr[t].pc # "idle" => ~crashed

====
